---- MODULE Spec2Model ----
(***************************************************************************)
(* Model of prepare_ml_training_dataset_fixed.py: the merge-and-split      *)
(* pipeline  load_datasets -> extract_all_label_studio_values ->           *)
(* merge_with_coco -> create_training_dataset -> save_training_dataset.    *)
(*                                                                         *)
(* Conventions.                                                            *)
(*   - A Python value that may be None is a sequence of length at most 1:  *)
(*     <<>> is None, <<v>> is the value v.                                 *)
(*   - A path is the sequence of its '/'-separated components, so that     *)
(*     s.split('/')[-1] is the last component.                             *)
(*   - Bounding boxes and the 'rectangles', 'qualifiers', 'notes' and      *)
(*     'all_results' lists are copied or collected by the code but never   *)
(*     read by the fusion or the split; they are not part of the state.    *)
(***************************************************************************)
EXTENDS Integers, Sequences, FiniteSets, TLC

(***************************************************************************)
(* Bounds of the explored inputs.                                          *)
(***************************************************************************)
MaxAnnos == 3     \* annotations of the structural export
MaxZones == 2     \* zone-code results of the page of the value export
MaxValues == 1    \* numeric results of the page of the value export

VARIABLES
    coco_file,            \* annotations list of Zoning-Labels-COCO.json
    label_studio_file,    \* result list of the task of the Label Studio export
    pc,                   \* position of main()
    run,                  \* number of the current call of main() in this process
    coco_data,            \* main's local coco_data (its annotations)
    label_studio_data,    \* main's local label_studio_data (list of tasks)
    values_by_page,       \* main's local values_by_page
    merged_annotations,   \* main's local merged_annotations
    dataset,              \* main's local dataset
    written,              \* ml_training_dataset.json was written in this run
    output_file,          \* content of ml_training_dataset.json, <<>> if none
    rng_state,            \* state of numpy's global random generator
    prev_dataset          \* dataset returned in the previous run (history)

vars == <<coco_file, label_studio_file, pc, run, coco_data, label_studio_data,
          values_by_page, merged_annotations, dataset, written, output_file,
          rng_state, prev_dataset>>

None == <<>>
Some(v) == <<v>>

(***************************************************************************)
(* The structural export: images and categories tables.                    *)
(***************************************************************************)
\* coco_data['images']: id -> file_name (as path components)
Images == [i \in {1, 2} |-> <<"images", IF i = 1 THEN "page_1.png" ELSE "page_2.png">>]

\* coco_data['categories']: id -> name
Categories ==
    [c \in 1..9 |->
        CASE c = 1 -> "ZONE_CODE"
          [] c = 2 -> "MIN_LOT_AREA"
          [] c = 3 -> "NOTES"
          [] c = 4 -> "MIN_LOT_WIDTH"
          [] c = 5 -> "FRONT_YARD"
          [] c = 6 -> "SIDE_YARD"
          [] c = 7 -> "REAR_YARD"
          [] c = 8 -> "MAX_HEIGHT_FT"
          [] c = 9 -> "MAX_LOT_COVERAGE"]

\* the list literal of merge_with_coco's elif
NumericCategories ==
    {"MIN_LOT_AREA", "MIN_LOT_WIDTH", "FRONT_YARD", "SIDE_YARD",
     "REAR_YARD", "MAX_HEIGHT_FT", "MAX_LOT_COVERAGE"}

\* s.split('/')[-1]
Basename(path) == IF path = <<>> THEN "" ELSE path[Len(path)]

(***************************************************************************)
(* The value export: one task, uploaded as page_1.png.                     *)
(***************************************************************************)
NormalizedValueResult(n) ==
    [from_name |-> "normalized_value", number |-> n, text |-> <<>>, choices |-> <<>>]
ZoneCodeResult(t) ==
    [from_name |-> "zone_code_text", number |-> None, text |-> t, choices |-> <<>>]
UnitResult(c) ==
    [from_name |-> "unit", number |-> None, text |-> <<>>, choices |-> c]

SeqsUpTo(S, n) == UNION {[1..k -> S] : k \in 0..n}

\* the explored structural annotations: a zone-code box and a numeric-field
\* box, on page_1.png (which the value export has) or on page_2.png (which
\* it has not)
InputAnnotations == [image_id : DOMAIN Images, category_id : {1, 2}]

\* the explored value exports: the page's zone-code results, then its
\* numeric results (a number, zero, or no number), then its unit results
InputZoneResults ==
    SeqsUpTo({ZoneCodeResult(<<"R-1">>), ZoneCodeResult(<<"R-2">>)}, MaxZones)
InputValueResults ==
    SeqsUpTo({NormalizedValueResult(Some(5000)), NormalizedValueResult(Some(0)),
              NormalizedValueResult(None)}, MaxValues)
InputUnitResults == {<<>>, <<UnitResult(<<"sqft">>)>>}
InputResultLists ==
    {z \o v \o u : z \in InputZoneResults, v \in InputValueResults,
                    u \in InputUnitResults}

Task(results) ==
    [file_upload |-> <<"upload", "page_1.png">>, annotations |-> <<[result |-> results]>>]

(***************************************************************************)
(* extract_all_label_studio_values                                         *)
(***************************************************************************)
EmptyPageValues == [normalized_values |-> <<>>, zone_codes |-> <<>>, units |-> <<>>]

\* body of "for result in results": classify one result record
ExtractResult(pv, result) ==
    IF result.from_name = "normalized_value"
    THEN [pv EXCEPT !.normalized_values = Append(@, [number |-> result.number])]
    ELSE IF result.from_name = "zone_code_text"
    THEN LET text == IF result.text # <<>> THEN result.text[1] ELSE ""
         IN  IF text # ""
             THEN [pv EXCEPT !.zone_codes = Append(@, [text |-> text])]
             ELSE pv
    ELSE IF result.from_name = "unit"
    THEN IF result.choices # <<>>
         THEN [pv EXCEPT !.units = Append(@, [unit |-> result.choices[1]])]
         ELSE pv
    ELSE pv

RECURSIVE ExtractResults(_, _)
ExtractResults(pv, results) ==
    IF results = <<>> THEN pv
    ELSE ExtractResults(ExtractResult(pv, Head(results)), Tail(results))

RECURSIVE ExtractAnnotations(_, _)
ExtractAnnotations(pv, annotations) ==
    IF annotations = <<>> THEN pv
    ELSE ExtractAnnotations(ExtractResults(pv, Head(annotations).result),
                            Tail(annotations))

\* the page keys of the tasks, in task order
PageKeys(tasks) == {Basename(tasks[t].file_upload) : t \in DOMAIN tasks}

\* later tasks with the same page key overwrite earlier ones
extract_all_label_studio_values(tasks) ==
    [key \in PageKeys(tasks) |->
        LET last == CHOOSE t \in DOMAIN tasks :
                        /\ Basename(tasks[t].file_upload) = key
                        /\ \A u \in DOMAIN tasks :
                               Basename(tasks[u].file_upload) = key => u <= t
        IN  ExtractAnnotations(EmptyPageValues, tasks[last].annotations)]

(***************************************************************************)
(* merge_with_coco                                                         *)
(***************************************************************************)
\* image_id_to_filename.get(image_id, '')
ImageFilename(image_id) ==
    IF image_id \in DOMAIN Images THEN Basename(Images[image_id]) ELSE ""

\* a lookup that falls back to a page of the index instead of the empty dict
PageLookupSomePage(vbp, filename) ==
    IF filename \in DOMAIN vbp THEN vbp[filename]
    ELSE IF DOMAIN vbp # {} THEN vbp[CHOOSE key \in DOMAIN vbp : TRUE]
    ELSE EmptyPageValues

\* values_by_page.get(filename, {}); every later read is a .get() tested for
\* truth, so the empty dict reads as a page whose lists are all empty
PageLookup(vbp, filename) ==
    IF filename \in DOMAIN vbp THEN vbp[filename] ELSE EmptyPageValues

\* the for/if/break over page_values['zone_codes']
RECURSIVE FirstUnregistered(_, _)
FirstUnregistered(zone_codes, zones_found) ==
    IF zone_codes = <<>> THEN None
    ELSE IF Head(zone_codes).text \notin zones_found
         THEN Some(Head(zone_codes).text)
         ELSE FirstUnregistered(Tail(zone_codes), zones_found)

\* a registry that is never added to
RegistryAddNothing(zones_found, text) == zones_found

\* zones_found.add(zone['text'])
RegistryAdd(zones_found, text) == zones_found \cup {text}

\* the substring tests on category_name
InferUnit(category_name) ==
    IF category_name \in {"MIN_LOT_AREA"} THEN Some("sqft")
    ELSE IF category_name \in {"MAX_HEIGHT_FT", "FRONT_YARD", "SIDE_YARD",
                               "REAR_YARD", "MIN_LOT_WIDTH"}
    THEN Some("ft")
    ELSE IF category_name \in {"MAX_LOT_COVERAGE"} THEN Some("percent")
    ELSE None

\* 'Create base annotation'
BaseAnnotation(anno) ==
    [id |-> anno.id,
     image_id |-> anno.image_id,
     image_filename |-> ImageFilename(anno.image_id),
     category |-> Categories[anno.category_id],
     normalized_value |-> None,
     unit |-> None,
     zone_code |-> None,
     has_values |-> FALSE]

\* the ZONE_CODE branch; returns the annotation and the registry
MergeZoneCode(base, page_values, zones_found) ==
    LET zone == FirstUnregistered(page_values.zone_codes, zones_found)
    IN  IF zone # None
        THEN [anno |-> [base EXCEPT !.zone_code = zone, !.has_values = TRUE],
              zones |-> RegistryAdd(zones_found, zone[1])]
        ELSE [anno |-> base, zones |-> zones_found]

\* the numeric-category branch; k is len(merged_annotations)
MergeNumeric(base, page_values, k) ==
    LET values == page_values.normalized_values
        with_value ==
            IF values # <<>> /\ k < Len(values)
            THEN [base EXCEPT !.normalized_value = values[(k % Len(values)) + 1].number,
                              !.has_values = TRUE]
            ELSE base
    IN  IF page_values.units # <<>>
        THEN [with_value EXCEPT !.unit = InferUnit(base.category)]
        ELSE with_value

\* body of "for anno in coco_data['annotations']"
MergeAnnotation(anno, merged, zones_found, vbp) ==
    LET base == BaseAnnotation(anno)
        page_values == PageLookup(vbp, base.image_filename)
    IN  IF base.category = "ZONE_CODE"
        THEN MergeZoneCode(base, page_values, zones_found)
        ELSE IF base.category \in NumericCategories
        THEN [anno |-> MergeNumeric(base, page_values, Len(merged)),
              zones |-> zones_found]
        ELSE [anno |-> base, zones |-> zones_found]

RECURSIVE MergeLoop(_, _, _, _)
MergeLoop(annos, merged, zones_found, vbp) ==
    IF annos = <<>> THEN merged
    ELSE LET r == MergeAnnotation(Head(annos), merged, zones_found, vbp)
         IN  MergeLoop(Tail(annos), Append(merged, r.anno), r.zones, vbp)

\* merged_annotations = [], zones_found = set(), then the loop
merge_with_coco(annos, vbp) == MergeLoop(annos, <<>>, {}, vbp)

(***************************************************************************)
(* numpy's global generator.  The Mersenne Twister is abstracted to a      *)
(* full-period congruential generator on 3 bits; seeding, the rejection    *)
(* sampling of a bounded integer and the Fisher-Yates loop of              *)
(* np.random.shuffle are kept, so a shuffle is a permutation that depends  *)
(* on the generator's state and leaves a new state behind.                 *)
(***************************************************************************)
Seed == 42

NextRng(s) == (5 * s + 3) % 8

\* a generator that is not re-seeded
SeedRngSkipped(s) == s

\* np.random.seed(42)
SeedRng(s) == Seed % 8

\* smallest 2^b - 1 that is >= max
Mask(max) == IF max < 2 THEN 1 ELSE IF max < 4 THEN 3 ELSE 7

\* a uniform integer of 0..max by rejection
RECURSIVE RandomInterval(_, _)
RandomInterval(max, s) ==
    IF max = 0 THEN [value |-> 0, state |-> s]
    ELSE LET s1 == NextRng(s)
             v == s1 % (Mask(max) + 1)
         IN  IF v <= max THEN [value |-> v, state |-> s1]
             ELSE RandomInterval(max, s1)

Swap(x, i, j) == [x EXCEPT ![i] = x[j], ![j] = x[i]]

\* for i in reversed(range(1, n)): j = interval(i); x[i], x[j] = x[j], x[i]
RECURSIVE ShuffleFrom(_, _, _)
ShuffleFrom(x, i, s) ==
    IF i < 1 THEN [list |-> x, state |-> s]
    ELSE LET r == RandomInterval(i, s)
         IN  ShuffleFrom(Swap(x, i + 1, r.value + 1), i - 1, r.state)

\* np.random.shuffle(x) with the generator in state s
Shuffle(x, s) == ShuffleFrom(x, Len(x) - 1, s)

(***************************************************************************)
(* create_training_dataset                                                 *)
(***************************************************************************)
\* truth value of a Python str-or-None / number-or-None
TruthyStr(v) == v # None /\ v[1] # ""
TruthyNum(v) == v # None /\ v[1] # 0

\* if anno['zone_code'] or anno['normalized_value']
IsHighQuality(anno) == TruthyStr(anno.zone_code) \/ TruthyNum(anno.normalized_value)
IsMediumQuality(anno) == ~IsHighQuality(anno)

\* a split index that rounds instead of flooring
SplitIndexRounded(n) == (n * 8 + 5) \div 10

\* int(len(tier) * 0.8)
SplitIndex(n) == (n * 8) \div 10

\* a validation slice that starts one element late
ValSliceSkipsOne(tier, split) == SubSeq(tier, split + 2, Len(tier))

\* tier[:split] and tier[split:]
TrainSlice(tier, split) == SubSeq(tier, 1, split)
ValSlice(tier, split) == SubSeq(tier, split + 1, Len(tier))

RECURSIVE CategoryNames(_)
CategoryNames(annos) ==
    IF annos = <<>> THEN {} ELSE {Head(annos).category} \cup CategoryNames(Tail(annos))

\* returns the dataset and the state the generator is left in
create_training_dataset(merged, s) ==
    LET s0 == SeedRng(s)
        sh_hq == Shuffle(SelectSeq(merged, IsHighQuality), s0)
        sh_mq == Shuffle(SelectSeq(merged, IsMediumQuality), sh_hq.state)
        high_quality == sh_hq.list
        medium_quality == sh_mq.list
        hq_split == SplitIndex(Len(high_quality))
        mq_split == SplitIndex(Len(medium_quality))
        sh_train == Shuffle(TrainSlice(high_quality, hq_split)
                              \o TrainSlice(medium_quality, mq_split), sh_mq.state)
        sh_val == Shuffle(ValSlice(high_quality, hq_split)
                            \o ValSlice(medium_quality, mq_split), sh_train.state)
    IN  [dataset |->
            [train |-> sh_train.list,
             validation |-> sh_val.list,
             high_quality |-> high_quality,
             medium_quality |-> medium_quality,
             metadata |-> [total_annotations |-> Len(merged),
                           with_values |-> Len(high_quality),
                           categories |-> CategoryNames(merged)]],
         state |-> sh_val.state]

(***************************************************************************)
(* main                                                                    *)
(***************************************************************************)
NoPages == [key \in {} |-> EmptyPageValues]
NoDataset == <<>>

\* json.load of the structural export; annotation ids are their positions
LoadCoco(file) ==
    [i \in 1..Len(file) |->
        [id |-> i, image_id |-> file[i].image_id, category_id |-> file[i].category_id]]

\* json.load of the value export
LoadLabelStudio(file) == <<Task(file)>>

\* the state of the generator before np.random.seed is first called; the
\* code never draws from it
UnseededRng == {0}

Init ==
    /\ coco_file \in SeqsUpTo(InputAnnotations, MaxAnnos)
    /\ label_studio_file \in InputResultLists
    /\ pc = "load"
    /\ run = 1
    /\ coco_data = <<>>
    /\ label_studio_data = <<>>
    /\ values_by_page = NoPages
    /\ merged_annotations = <<>>
    /\ dataset = NoDataset
    /\ written = FALSE
    /\ output_file = None
    /\ rng_state \in UnseededRng
    /\ prev_dataset = NoDataset

\* load_datasets(): both files are read and parsed
MainLoad ==
    /\ pc = "load"
    /\ coco_data' = LoadCoco(coco_file)
    /\ label_studio_data' = LoadLabelStudio(label_studio_file)
    /\ pc' = "extract"
    /\ UNCHANGED <<coco_file, label_studio_file, run, values_by_page,
                   merged_annotations, dataset, written, output_file,
                   rng_state, prev_dataset>>

\* load_datasets() raises: a file is missing or is not the expected JSON
MainLoadFails ==
    /\ pc = "load"
    /\ pc' = "aborted"
    /\ UNCHANGED <<coco_file, label_studio_file, run, coco_data,
                   label_studio_data, values_by_page, merged_annotations,
                   dataset, written, output_file, rng_state, prev_dataset>>

MainExtract ==
    /\ pc = "extract"
    /\ values_by_page' = extract_all_label_studio_values(label_studio_data)
    /\ pc' = "merge"
    /\ UNCHANGED <<coco_file, label_studio_file, run, coco_data,
                   label_studio_data, merged_annotations, dataset, written,
                   output_file, rng_state, prev_dataset>>

MainMerge ==
    /\ pc = "merge"
    /\ merged_annotations' = merge_with_coco(coco_data, values_by_page)
    /\ pc' = "create"
    /\ UNCHANGED <<coco_file, label_studio_file, run, coco_data,
                   label_studio_data, values_by_page, dataset, written,
                   output_file, rng_state, prev_dataset>>

MainCreate ==
    /\ pc = "create"
    /\ LET r == create_training_dataset(merged_annotations, rng_state)
       IN  /\ dataset' = r.dataset
           /\ rng_state' = r.state
    /\ pc' = "save"
    /\ UNCHANGED <<coco_file, label_studio_file, run, coco_data,
                   label_studio_data, values_by_page, merged_annotations,
                   written, output_file, prev_dataset>>

\* a save that is also reached before the dataset is built
SaveEnabledEarly == pc \in {"create", "save"}

\* the point of main() at which save_training_dataset is called
SaveEnabled == pc = "save"

\* save_training_dataset(dataset), then main returns
MainSave ==
    /\ SaveEnabled
    /\ output_file' = Some(dataset)
    /\ written' = TRUE
    /\ pc' = "done"
    /\ UNCHANGED <<coco_file, label_studio_file, run, coco_data,
                   label_studio_data, values_by_page, merged_annotations,
                   dataset, rng_state, prev_dataset>>

\* main() is called a second time in the same process, on the same input files;
\* its locals are fresh, the generator and the output file are not
MainAgain ==
    /\ pc = "done"
    /\ run = 1
    /\ run' = run + 1
    /\ prev_dataset' = dataset
    /\ pc' = "load"
    /\ coco_data' = <<>>
    /\ label_studio_data' = <<>>
    /\ values_by_page' = NoPages
    /\ merged_annotations' = <<>>
    /\ dataset' = NoDataset
    /\ written' = FALSE
    /\ UNCHANGED <<coco_file, label_studio_file, output_file, rng_state>>

Next ==
    \/ MainLoad
    \/ MainLoadFails
    \/ MainExtract
    \/ MainMerge
    \/ MainCreate
    \/ MainSave
    \/ MainAgain

Spec == Init /\ [][Next]_vars

(***************************************************************************)
(* Properties                                                              *)
(***************************************************************************)
\* merge_with_coco has returned in this run
Merged == pc \in {"create", "save", "done"}
\* create_training_dataset has returned in this run
Built == pc \in {"save", "done"}

\* number of positions of seq holding x
Occurrences(seq, x) == Cardinality({i \in DOMAIN seq : seq[i] = x})
\* number of elements of seq that occur in tier
CountFrom(seq, tier) ==
    Cardinality({i \in DOMAIN seq : \E j \in DOMAIN tier : tier[j] = seq[i]})
\* the value index of the page of a fused annotation
PageOf(anno) == PageLookup(values_by_page, anno.image_filename)
HasPage(anno) == anno.image_filename \in DOMAIN values_by_page

\* C1: train and validation together hold every fused annotation exactly
\* once, and |train| + |validation| = |high_quality| + |medium_quality|
\* = metadata.total_annotations = the number of fused annotations.
C1_NoLossNoDuplication ==
    Built =>
        /\ Len(dataset.train) + Len(dataset.validation)
               = Len(dataset.high_quality) + Len(dataset.medium_quality)
        /\ Len(dataset.high_quality) + Len(dataset.medium_quality)
               = dataset.metadata.total_annotations
        /\ dataset.metadata.total_annotations = Len(merged_annotations)
        /\ \A i \in DOMAIN merged_annotations :
               Occurrences(dataset.train \o dataset.validation,
                           merged_annotations[i]) = 1

C1_Witness ==
    /\ Built
    /\ Len(dataset.train) >= 1
    /\ Len(dataset.validation) >= 2
    /\ dataset.high_quality # <<>>
    /\ dataset.medium_quality # <<>>

\* C2: a fused annotation with has_values = TRUE is in high_quality and one
\* with has_values = FALSE is in medium_quality.
C2_TierFollowsHasValues ==
    Built =>
        \A i \in DOMAIN merged_annotations :
            IF merged_annotations[i].has_values
            THEN Occurrences(dataset.high_quality, merged_annotations[i]) = 1
            ELSE Occurrences(dataset.medium_quality, merged_annotations[i]) = 1

\* C3: no zone text is assigned to two fused annotations, and every
\* ZONE_CODE annotation has the first zone text of its page that no earlier
\* annotation was given, or none when the page has no such text.
C3_ZoneCodeAssignedOnce ==
    Merged =>
        /\ \A i, j \in DOMAIN merged_annotations :
               (i # j /\ merged_annotations[i].zone_code # None)
                   => merged_annotations[i].zone_code # merged_annotations[j].zone_code
        /\ \A i \in DOMAIN merged_annotations :
               LET anno == merged_annotations[i]
                   texts == PageOf(anno).zone_codes
                   taken == {merged_annotations[j].zone_code :
                                 j \in 1..(i - 1)}
                   free == {n \in DOMAIN texts : Some(texts[n].text) \notin taken}
               IN  IF anno.category = "ZONE_CODE" /\ free # {}
                   THEN \E n \in free :
                            /\ \A m \in free : n <= m
                            /\ anno.zone_code = Some(texts[n].text)
                   ELSE anno.zone_code = None

C3_Witness ==
    /\ Merged
    /\ \E i, j, k \in DOMAIN merged_annotations :
           /\ i < j /\ j < k
           /\ merged_annotations[i].zone_code = Some("R-1")
           /\ merged_annotations[j].zone_code = Some("R-2")
           /\ merged_annotations[k].category = "ZONE_CODE"
           /\ HasPage(merged_annotations[k])
           /\ merged_annotations[k].zone_code = None

\* the scenario of C4: ZONE_CODE, ZONE_CODE, MIN_LOT_AREA on page_1.png, whose
\* results are the zone texts R-1, R-1 and the number 5000
C4_Scenario ==
    /\ coco_file = <<[image_id |-> 1, category_id |-> 1],
                     [image_id |-> 1, category_id |-> 1],
                     [image_id |-> 1, category_id |-> 2]>>
    /\ label_studio_file = <<ZoneCodeResult(<<"R-1">>), ZoneCodeResult(<<"R-1">>),
                             NormalizedValueResult(Some(5000))>>

\* C4: in the scenario the first ZONE_CODE annotation gets zone R-1 and
\* has_values, the second gets no zone and no has_values, and the
\* MIN_LOT_AREA annotation gets value 5000, unit sqft and has_values.
C4_ScenarioResult ==
    (Merged /\ C4_Scenario) =>
        /\ merged_annotations[1].zone_code = Some("R-1")
        /\ merged_annotations[1].has_values
        /\ merged_annotations[2].zone_code = None
        /\ ~merged_annotations[2].has_values
        /\ merged_annotations[3].normalized_value = Some(5000)
        /\ merged_annotations[3].unit = Some("sqft")
        /\ merged_annotations[3].has_values

\* C5: has_values is TRUE exactly when a zone code or a numeric value was
\* assigned to the fused annotation.
C5_HasValuesIffAssigned ==
    Merged =>
        \A i \in DOMAIN merged_annotations :
            merged_annotations[i].has_values
                <=> (\/ merged_annotations[i].zone_code # None
                     \/ merged_annotations[i].normalized_value # None)

\* C6: a tier of n elements gives floor(0.8 n) of them to train and the
\* other n - floor(0.8 n) to validation; a tier of one element goes to
\* validation; no annotations give total 0 and empty train and validation.
C6_SplitPerTier ==
    Built =>
        /\ \A tier \in {dataset.high_quality, dataset.medium_quality} :
               LET n == Len(tier)
                   floor08 == CHOOSE f \in 0..n : 5 * f <= 4 * n /\ 4 * n < 5 * (f + 1)
               IN  /\ CountFrom(dataset.train, tier) = floor08
                   /\ CountFrom(dataset.validation, tier) = n - floor08
                   /\ n = 1 => /\ Occurrences(dataset.validation, tier[1]) = 1
                               /\ Occurrences(dataset.train, tier[1]) = 0
        /\ coco_file = <<>> =>
               /\ dataset.metadata.total_annotations = 0
               /\ dataset.train = <<>>
               /\ dataset.validation = <<>>

C6_Witness ==
    /\ Built
    /\ Len(dataset.high_quality) = 1
    /\ Len(dataset.medium_quality) = 2
    /\ Len(dataset.train) = 1

\* C7: an annotation whose image has no page in the value index yields one
\* fused annotation, at its position, with no value, no unit, no zone code
\* and has_values = FALSE, and merge_with_coco returns.
C7_NoPageNoValues ==
    Merged =>
        /\ Len(merged_annotations) = Len(coco_data)
        /\ \A i \in DOMAIN coco_data :
               ImageFilename(coco_data[i].image_id) \notin DOMAIN values_by_page
                   => /\ merged_annotations[i].id = coco_data[i].id
                      /\ merged_annotations[i].normalized_value = None
                      /\ merged_annotations[i].unit = None
                      /\ merged_annotations[i].zone_code = None
                      /\ ~merged_annotations[i].has_values

C7_Witness ==
    /\ Merged
    /\ \E i, j, k \in DOMAIN merged_annotations :
           /\ i # j /\ i < k
           /\ ~HasPage(merged_annotations[i])
           /\ merged_annotations[i].category = "MIN_LOT_AREA"
           /\ i <= Len(values_by_page["page_1.png"].normalized_values)
           /\ values_by_page["page_1.png"].units # <<>>
           /\ ~HasPage(merged_annotations[j])
           /\ merged_annotations[j].category = "ZONE_CODE"
           /\ merged_annotations[k].zone_code # None

\* C8: a second run on the same input files returns the dataset of the
\* first run, element for element.
C8_SecondRunIdentical ==
    (Built /\ run = 2) => dataset = prev_dataset

C8_Witness ==
    /\ pc = "done"
    /\ run = 2
    /\ Len(dataset.train) >= 2
    /\ dataset.train[1].id > dataset.train[2].id
    /\ Len(dataset.validation) >= 1
    /\ \E i \in DOMAIN dataset.train : dataset.train[i].zone_code # None

\* the dataset the four stages compute from the input files
FullResult ==
    create_training_dataset(
        merge_with_coco(LoadCoco(coco_file),
                        extract_all_label_studio_values(
                            LoadLabelStudio(label_studio_file))),
        rng_state).dataset

\* C9: the output file is written in a run only once loading, indexing,
\* fusion and dataset building are all done, and then holds their full
\* result; a run that aborts has written nothing.
C9_NoPartialOutput ==
    /\ written => /\ pc = "done"
                  /\ output_file = Some(FullResult)
    /\ pc # "done" => ~written
    /\ (pc # "done" /\ run = 1) => output_file = None

C9_Witness ==
    /\ written
    /\ pc = "done"
    /\ output_file[1].train # <<>>
    /\ output_file[1].validation # <<>>

\* C10: a numeric-category annotation whose page has numeric values gets
\* normalized_values[k % len(normalized_values)], k being the number of
\* fused annotations produced before it.
C10_ModuloAssignment ==
    Merged =>
        \A i \in DOMAIN merged_annotations :
            LET anno == merged_annotations[i]
                values == PageOf(anno).normalized_values
                k == i - 1
            IN  (anno.category \in NumericCategories /\ values # <<>>)
                    => anno.normalized_value = values[(k % Len(values)) + 1].number
====
